---- MODULE Spec2Model ----
(***************************************************************************)
(* PDFReportGenerator (pdf_service.py): the synchronous report renderer    *)
(* `generate`, its path resolution, its table/totals loop, the engine's    *)
(* write of the output file, and the fire-and-forget dispatcher            *)
(* `generate_async` with its completion callback.                          *)
(*                                                                         *)
(* Conventions.  Python strings are TLA+ strings.  Numbers shown with the  *)
(* format spec .2f are held in hundredths (1250 is 12.50).  None is the    *)
(* Python value None.  A file is the sequence of blocks written to it.     *)
(***************************************************************************)
EXTENDS Integers, Sequences, FiniteSets, TLC

\* ---------------------------------------------------------------- bounds
\* Number of generate / generate_async calls made during a run.
NumGens == 2
\* Longest subject list of the single-call specification SpecOne.
MaxSubjects == 2

Gens == 1..NumGens

\* ------------------------------------------------------- Python values
None == "<None>"

\* A value the format spec .2f rejects (None, a str, ...).
NotNumber == -1

\* f"{x:.2f}" raises for a value that is not a number.
FormatRaises(x) == x = NotNumber

TwoDigits(n) == IF n < 10 THEN "0" \o ToString(n) ELSE ToString(n)

\* f"{x:.2f}" of a non-negative number held in hundredths.
Fmt2(x) == ToString(x \div 100) \o "." \o TwoDigits(x % 100)

\* str(n) of an int.
Str(n) == ToString(n)

Lower == "abcdefghijklmnopqrstuvwxyz"
Upper == "ABCDEFGHIJKLMNOPQRSTUVWXYZ"

RECURSIVE UpperChar(_, _)
UpperChar(c, n) ==
    IF n > Len(Lower) THEN c
    ELSE IF SubSeq(Lower, n, n) = c THEN SubSeq(Upper, n, n)
    ELSE UpperChar(c, n + 1)

\* classification.upper()
RECURSIVE StrUpper(_)
StrUpper(s) ==
    IF s = "" THEN ""
    ELSE UpperChar(SubSeq(s, 1, 1), 1) \o StrUpper(SubSeq(s, 2, Len(s)))

\* os.path.isabs(p) on a POSIX system.
IsAbs(p) == p # "" /\ SubSeq(p, 1, 1) = "/"

\* os.path.join(a, b) on a POSIX system, two components: an absolute b
\* discards a.
Join(a, b) ==
    IF IsAbs(b) THEN b
    ELSE IF a = "" \/ SubSeq(a, Len(a), Len(a)) = "/" THEN a \o b
    ELSE a \o "/" \o b

\* ------------------------------------------------------- the environment
\* os.path.expanduser("~")
Home == "/home/user"

android_path == "/storage/emulated/0/Download"
desktop_path == Join(Home, "Downloads")

\* ------------------------------------------------------------- inputs
Subject(name, average, coeff, weighted) ==
    [name |-> name, average |-> average, coeff |-> coeff,
     weighted_score |-> weighted]

Math    == Subject("Math", 1500, 4, 6000)
Physics == Subject("Physics", 1250, 3, 3750)
\* A record whose average cannot be formatted.
Broken  == Subject("Art", NotNumber, 2, 0)

RECURSIVE SeqsUpTo(_, _)
SeqsUpTo(S, n) ==
    IF n = 0 THEN {<<>>}
    ELSE LET shorter == SeqsUpTo(S, n - 1)
         IN  shorter \cup {Append(s, x) : s \in shorter, x \in S}

Request(subjects, total_avg, classification, filename) ==
    [subjects |-> subjects, total_avg |-> total_avg,
     classification |-> classification, filename |-> filename]

\* The requests of the concurrent and the sequential specifications.
Requests ==
    {Request(s, 1380, "good", "good_report.pdf") : s \in {<<>>, <<Math, Physics>>}}

\* The requests of the single-call specification: every subject list up to
\* MaxSubjects, well-formed or not, and file names of every kind.
WideRequests ==
    {Request(s, a, c, f) :
        s \in SeqsUpTo({Math, Physics, Broken}, MaxSubjects),
        a \in {1380, NotNumber},
        c \in {"good", None},
        f \in {"good_report.pdf", "/tmp/abs.pdf", None}}

Callbacks == {None, "on_done"}

NoArgs ==
    [subjects |-> <<>>, total_avg |-> 0, classification |-> "", filename |-> "",
     callback |-> None, mode |-> "none"]

Args(r, callback, mode) ==
    [subjects |-> r.subjects, total_avg |-> r.total_avg,
     classification |-> r.classification, filename |-> r.filename,
     callback |-> callback, mode |-> mode]

\* ---------------------------------------------------------- exceptions
Exc(type, msg) == [type |-> type, msg |-> msg]

\* The classes derived from Exception that the calls of generate raise.
ExceptionClasses ==
    {"OSError", "FileExistsError", "FileNotFoundError", "PermissionError",
     "TypeError", "ValueError", "AttributeError"}

\* Faulty variant: `except OSError`.
CatchesOSErrorOnly(e) ==
    e.type \in {"OSError", "FileExistsError", "FileNotFoundError", "PermissionError"}

\* `except Exception as e`
Catches(e) == e.type \in ExceptionClasses

FileExists(path) ==
    Exc("FileExistsError", "[Errno 17] File exists: '" \o path \o "'")
PermissionDenied(path) ==
    Exc("PermissionError", "[Errno 13] Permission denied: '" \o path \o "'")
NoSuchFile(path) ==
    Exc("FileNotFoundError", "[Errno 2] No such file or directory: '" \o path \o "'")
NoSpace == Exc("OSError", "[Errno 28] No space left on device")
JoinTypeError ==
    Exc("TypeError", "expected str, bytes or os.PathLike object, not NoneType")
FormatTypeError ==
    Exc("TypeError", "unsupported format string passed to NoneType.__format__")
UpperAttributeError ==
    Exc("AttributeError", "'NoneType' object has no attribute 'upper'")

\* -------------------------------------------------------------- state
VARIABLES
    alive,       \* the process runs (daemon threads die with it)
    dirs,        \* the directories that exist
    files,       \* path -> content, for the files that exist
    lastWriter,  \* path -> the call whose write to it completed last
    args,        \* call -> its arguments (NoArgs before the call)
    callerPc,    \* call -> where its caller is
    pc,          \* call -> where its generate / task is
    frame,       \* call -> the locals of generate
    result,      \* call -> what generate returned
    cbLog,       \* call -> the results its callback was invoked with
    ops          \* call -> the operations generate performed, in order

vars == <<alive, dirs, files, lastWriter, args, callerPc, pc, frame, result,
          cbLog, ops>>

fsVars == <<dirs, files, lastWriter>>

NoResult == <<FALSE, "<no result>">>

EmptyFrame ==
    [save_dir |-> "", full_path |-> "", data |-> <<>>, total_c |-> 0,
     total_w |-> 0, idx |-> 0, pdf |-> <<>>]

Init ==
    /\ alive = TRUE
    /\ dirs \in SUBSET {android_path, desktop_path}
    /\ files = <<>>
    /\ lastWriter = <<>>
    /\ args = [i \in Gens |-> NoArgs]
    /\ callerPc = [i \in Gens |-> "idle"]
    /\ pc = [i \in Gens |-> "idle"]
    /\ frame = [i \in Gens |-> EmptyFrame]
    /\ result = [i \in Gens |-> NoResult]
    /\ cbLog = [i \in Gens |-> <<>>]
    /\ ops = [i \in Gens |-> <<>>]

\* ------------------------------------------------------------ helpers
Goto(i, label) == pc' = [pc EXCEPT ![i] = label]

Did(i, op) == ops' = [ops EXCEPT ![i] = Append(@, op)]

\* `return r` of generate.
Returns(i, r) ==
    /\ result' = [result EXCEPT ![i] = r]
    /\ Goto(i, "ret")

\* An exception nothing catches leaves generate.
Escapes(i) ==
    /\ Goto(i, "crashed")
    /\ UNCHANGED result

\* Faulty variant: the first handler returns str(e) alone.
PathErrorDropsPrefix(e) == <<FALSE, e.msg>>

\* line 55: return False, f"Path Error: {str(e)}"
PathError(e) == <<FALSE, "Path Error: " \o e.msg>>

\* Faulty variant: the second handler returns True.
RenderErrorReportsSuccess(e) == <<TRUE, e.msg>>

\* line 158: return False, str(e)
RenderError(e) == <<FALSE, e.msg>>

\* line 156: return True, f"Saved to: {full_path}"
Saved(path) == <<TRUE, "Saved to: " \o path>>

\* An exception raised in the first try block (lines 41-55).
RaiseInPathBlock(i, e) ==
    IF Catches(e) THEN Returns(i, PathError(e)) ELSE Escapes(i)

\* An exception raised in the second try block (lines 110-158).
RaiseInRenderBlock(i, e) ==
    IF Catches(e) THEN Returns(i, RenderError(e)) ELSE Escapes(i)

\* --------------------------------------------------------- the callers
\* Calls are numbered in the order they are made.
MayCall(i) ==
    /\ alive
    /\ callerPc[i] = "idle"
    /\ i > 1 => callerPc[i - 1] # "idle"

\* generate_async: the thread running task() is started (line 35).
generate_async(i, r, callback) ==
    /\ MayCall(i)
    /\ args' = [args EXCEPT ![i] = Args(r, callback, "async")]
    /\ callerPc' = [callerPc EXCEPT ![i] = "in_async"]
    /\ Goto(i, "probe_android")
    /\ UNCHANGED <<alive, fsVars, frame, result, cbLog, ops>>

\* Faulty variant: generate_async joins the thread before returning.
AsyncReturnAfterJoin(i) ==
    /\ alive
    /\ callerPc[i] = "in_async"
    /\ pc[i] \in {"done", "crashed"}
    /\ callerPc' = [callerPc EXCEPT ![i] = "returned"]
    /\ UNCHANGED <<alive, fsVars, args, pc, frame, result, cbLog, ops>>

\* generate_async returns: nothing follows Thread.start() (line 35).
AsyncReturn(i) ==
    /\ alive
    /\ callerPc[i] = "in_async"
    /\ callerPc' = [callerPc EXCEPT ![i] = "returned"]
    /\ UNCHANGED <<alive, fsVars, args, pc, frame, result, cbLog, ops>>

\* A direct call of generate, on the caller's own thread.
generate(i, r) ==
    /\ MayCall(i)
    /\ args' = [args EXCEPT ![i] = Args(r, None, "sync")]
    /\ callerPc' = [callerPc EXCEPT ![i] = "in_generate"]
    /\ Goto(i, "probe_android")
    /\ UNCHANGED <<alive, fsVars, frame, result, cbLog, ops>>

\* ---------------------------------------------- generate: path resolution
\* line 46: if os.path.exists(android_path)
ProbeAndroid(i) ==
    /\ alive
    /\ pc[i] = "probe_android"
    /\ IF android_path \in dirs
       THEN /\ frame' = [frame EXCEPT ![i].save_dir = android_path]
            /\ Did(i, "exists(android)=True")
            /\ Goto(i, "join")
       ELSE /\ frame' = [frame EXCEPT ![i].save_dir = desktop_path]
            /\ Did(i, "exists(android)=False")
            /\ Goto(i, "probe_desktop")
    /\ UNCHANGED <<alive, fsVars, args, callerPc, result, cbLog>>

\* Faulty variant: the missing directory is not created.
ProbeDesktopNeverCreates(i) ==
    /\ alive
    /\ pc[i] = "probe_desktop"
    /\ Did(i, IF frame[i].save_dir \in dirs THEN "exists(desktop)=True"
              ELSE "exists(desktop)=False")
    /\ Goto(i, "join")
    /\ UNCHANGED <<alive, fsVars, args, callerPc, frame, result, cbLog>>

\* line 50: if not os.path.exists(save_dir)
ProbeDesktop(i) ==
    /\ alive
    /\ pc[i] = "probe_desktop"
    /\ IF frame[i].save_dir \in dirs
       THEN /\ Did(i, "exists(desktop)=True")
            /\ Goto(i, "join")
       ELSE /\ Did(i, "exists(desktop)=False")
            /\ Goto(i, "makedirs")
    /\ UNCHANGED <<alive, fsVars, args, callerPc, frame, result, cbLog>>

\* line 51: os.makedirs(save_dir), which raises FileExistsError when the
\* directory exists and PermissionError when it may not be created.
MakeDirs(i) ==
    /\ alive
    /\ pc[i] = "makedirs"
    /\ \/ /\ frame[i].save_dir \in dirs
          /\ Did(i, "makedirs!exists")
          /\ RaiseInPathBlock(i, FileExists(frame[i].save_dir))
          /\ UNCHANGED dirs
       \/ /\ frame[i].save_dir \notin dirs
          /\ Did(i, "makedirs")
          /\ dirs' = dirs \cup {frame[i].save_dir}
          /\ Goto(i, "join")
          /\ UNCHANGED result
       \/ /\ frame[i].save_dir \notin dirs
          /\ Did(i, "makedirs!denied")
          /\ RaiseInPathBlock(i, PermissionDenied(frame[i].save_dir))
          /\ UNCHANGED dirs
    /\ UNCHANGED <<alive, files, lastWriter, args, callerPc, frame, cbLog>>

\* line 53: full_path = os.path.join(save_dir, filename)
JoinPath(i) ==
    /\ alive
    /\ pc[i] = "join"
    /\ IF args[i].filename = None
       THEN /\ Did(i, "join!")
            /\ RaiseInPathBlock(i, JoinTypeError)
            /\ UNCHANGED frame
       ELSE /\ Did(i, "join")
            /\ frame' = [frame EXCEPT
                            ![i].full_path = Join(frame[i].save_dir, args[i].filename)]
            /\ Goto(i, "doc")
            /\ UNCHANGED result
    /\ UNCHANGED <<alive, fsVars, args, callerPc, cbLog>>

\* ------------------------------------------------- generate: the table
\* Paragraph(text, style): a cell holding marked-up text in a named style.
Paragraph(text, style) == style \o "|" \o text

\* lines 121-122
headers ==
    <<Paragraph("SUBJECT", "HeaderL"), Paragraph("AVG", "Header"),
      Paragraph("COEFF", "Header"), Paragraph("WEIGHTED", "Header")>>

\* lines 129-134
Row(sub) ==
    <<Paragraph("<b>" \o sub.name \o "</b>", "Normal"), Fmt2(sub.average),
      Str(sub.coeff), Fmt2(sub.weighted_score)>>

\* line 139
TotalsRow(c, w) == <<"", "TOTALS", Str(c), Fmt2(w)>>

\* Faulty variant: `total = x` for `total += x`.
AccumulateOverwrites(total, x) == x

\* lines 136-137: total += x
Accumulate(total, x) == total + x

\* lines 111-126: the document template, data = [headers], total_c = total_w = 0.
MakeDoc(i) ==
    /\ alive
    /\ pc[i] = "doc"
    /\ frame' = [frame EXCEPT ![i].data = <<headers>>, ![i].total_c = 0,
                              ![i].total_w = 0, ![i].idx = 1]
    /\ Did(i, "doc")
    /\ Goto(i, "loop")
    /\ UNCHANGED <<alive, fsVars, args, callerPc, result, cbLog>>

\* lines 128-137: one iteration of `for sub in subjects`.
LoopIter(i) ==
    /\ alive
    /\ pc[i] = "loop"
    /\ frame[i].idx <= Len(args[i].subjects)
    /\ LET sub == args[i].subjects[frame[i].idx]
       IN  IF FormatRaises(sub.average) \/ FormatRaises(sub.weighted_score)
           THEN /\ Did(i, "row!")
                /\ RaiseInRenderBlock(i, FormatTypeError)
                /\ UNCHANGED frame
           ELSE /\ Did(i, "row")
                /\ frame' = [frame EXCEPT
                                ![i].data = Append(@, Row(sub)),
                                ![i].total_c = Accumulate(@, sub.coeff),
                                ![i].total_w = Accumulate(@, sub.weighted_score),
                                ![i].idx = @ + 1]
                /\ UNCHANGED <<pc, result>>
    /\ UNCHANGED <<alive, fsVars, args, callerPc, cbLog>>

\* lines 139-153: the totals row closes the table.
LoopEnd(i) ==
    /\ alive
    /\ pc[i] = "loop"
    /\ frame[i].idx > Len(args[i].subjects)
    /\ frame' = [frame EXCEPT
                    ![i].data = Append(@, TotalsRow(frame[i].total_c, frame[i].total_w))]
    /\ Did(i, "table")
    /\ Goto(i, "layout")
    /\ UNCHANGED <<alive, fsVars, args, callerPc, result, cbLog>>

\* ------------------------------------------- generate: the engine's build
\* lines 61-108: what draw_background draws from the arguments (the date of
\* line 81 is left out).
Decoration(total_avg, classification) ==
    <<"ACADEMIC REPORT", Fmt2(total_avg), "/ 20",
      "PERFORMANCE: " \o StrUpper(classification),
      "ACADEMIC ANALYTICS SUITE", "Powered by Karim Dev">>

\* The rendered document: the page decoration, then the table's rows.
Document(total_avg, classification, data) ==
    <<Decoration(total_avg, classification)>> \o data

\* line 155, doc.build: the engine lays the table out and calls
\* draw_background, which raises at line 102 or at line 107.
Layout(i) ==
    /\ alive
    /\ pc[i] = "layout"
    /\ IF FormatRaises(args[i].total_avg)
       THEN /\ Did(i, "decorate!")
            /\ RaiseInRenderBlock(i, FormatTypeError)
            /\ UNCHANGED frame
       ELSE IF args[i].classification = None
       THEN /\ Did(i, "decorate!")
            /\ RaiseInRenderBlock(i, UpperAttributeError)
            /\ UNCHANGED frame
       ELSE /\ Did(i, "decorate")
            /\ frame' = [frame EXCEPT
                            ![i].pdf = Document(args[i].total_avg,
                                                args[i].classification,
                                                frame[i].data)]
            /\ Goto(i, "open")
            /\ UNCHANGED result
    /\ UNCHANGED <<alive, fsVars, args, callerPc, cbLog>>

\* The directory of a relative file name is save_dir; the directory of
\* the absolute file names used here exists.
ParentExists(i) == IsAbs(args[i].filename) \/ frame[i].save_dir \in dirs

\* Faulty variant: the file is opened without truncation.
OpenedForAppend(old) == old

\* open(path, "wb") creates the file or truncates it to nothing.
OpenedForWriting(old) == <<>>

\* line 155, doc.build: the engine opens full_path for writing.
OpenFile(i) ==
    /\ alive
    /\ pc[i] = "open"
    /\ LET path == frame[i].full_path
           old  == IF path \in DOMAIN files THEN files[path] ELSE <<>>
       IN  \/ /\ ~ParentExists(i)
              /\ Did(i, "open!")
              /\ RaiseInRenderBlock(i, NoSuchFile(path))
              /\ UNCHANGED files
           \/ /\ ParentExists(i)
              /\ Did(i, "open!")
              /\ RaiseInRenderBlock(i, PermissionDenied(path))
              /\ UNCHANGED files
           \/ /\ ParentExists(i)
              /\ Did(i, "open")
              /\ files' = (path :> OpenedForWriting(old)) @@ files
              /\ Goto(i, "write")
              /\ UNCHANGED result
    /\ UNCHANGED <<alive, dirs, lastWriter, args, callerPc, frame, cbLog>>

\* A write of `new` at offset 0 of a file holding `old`.
Overlay(old, new) == new \o SubSeq(old, Len(new) + 1, Len(old))

\* line 155, doc.build: the engine writes the document from offset 0 and
\* closes the file, or the device fills up part-way; then lines 156-158.
WriteFile(i) ==
    /\ alive
    /\ pc[i] = "write"
    /\ LET path == frame[i].full_path
           pdf  == frame[i].pdf
       IN  \/ /\ files' = [files EXCEPT ![path] = Overlay(@, pdf)]
              /\ lastWriter' = (path :> i) @@ lastWriter
              /\ Did(i, "write")
              /\ Returns(i, Saved(path))
           \/ \E n \in 0..(Len(pdf) - 1) :
                 /\ files' = [files EXCEPT ![path] = Overlay(@, SubSeq(pdf, 1, n))]
                 /\ Did(i, "write!")
                 /\ RaiseInRenderBlock(i, NoSpace)
                 /\ UNCHANGED lastWriter
    /\ UNCHANGED <<alive, dirs, args, callerPc, frame, cbLog>>

GenerateStep(i) ==
    \/ ProbeAndroid(i)
    \/ ProbeDesktop(i)
    \/ MakeDirs(i)
    \/ JoinPath(i)
    \/ MakeDoc(i)
    \/ LoopIter(i)
    \/ LoopEnd(i)
    \/ Layout(i)
    \/ OpenFile(i)
    \/ WriteFile(i)

\* ------------------------------------------------- after generate returns
\* `if callback:`
Truthy(callback) == callback # None

\* Faulty variant: the callback is only invoked on success.
TaskSkipsFailures(i) ==
    /\ alive
    /\ pc[i] = "ret"
    /\ args[i].mode = "async"
    /\ cbLog' = [cbLog EXCEPT ![i] =
                    IF Truthy(args[i].callback) /\ result[i][1]
                    THEN Append(@, result[i]) ELSE @]
    /\ Goto(i, "done")
    /\ UNCHANGED <<alive, fsVars, args, callerPc, frame, result, ops>>

\* lines 31-33: task() has its result and calls the callback, if any.
Task(i) ==
    /\ alive
    /\ pc[i] = "ret"
    /\ args[i].mode = "async"
    /\ cbLog' = [cbLog EXCEPT ![i] =
                    IF Truthy(args[i].callback) THEN Append(@, result[i]) ELSE @]
    /\ Goto(i, "done")
    /\ UNCHANGED <<alive, fsVars, args, callerPc, frame, result, ops>>

\* A direct call of generate hands its result to the caller.
GenerateReturn(i) ==
    /\ alive
    /\ pc[i] = "ret"
    /\ args[i].mode = "sync"
    /\ callerPc' = [callerPc EXCEPT ![i] = "returned"]
    /\ Goto(i, "done")
    /\ UNCHANGED <<alive, fsVars, args, frame, result, cbLog, ops>>

\* The process ends: the daemon threads of line 35 are abandoned.
ProcessExit ==
    /\ alive
    /\ alive' = FALSE
    /\ UNCHANGED <<fsVars, args, callerPc, pc, frame, result, cbLog, ops>>

\* -------------------------------------------------------- specifications
Worker(i) == GenerateStep(i) \/ Task(i) \/ GenerateReturn(i)

\* Concurrent calls, each on a thread of its own.
Next ==
    \/ \E i \in Gens, r \in Requests, cb \in Callbacks : generate_async(i, r, cb)
    \/ \E i \in Gens, r \in Requests : generate(i, r)
    \/ \E i \in Gens : AsyncReturn(i)
    \/ \E i \in Gens : Worker(i)
    \/ ProcessExit

Spec == Init /\ [][Next]_vars

\* The same, with every started thread scheduled fairly.
FairSpec == Spec /\ \A i \in Gens : WF_vars(Worker(i))

\* One call, with arguments of every kind.
NoCallYet == \A j \in Gens : callerPc[j] = "idle"

NextOne ==
    \/ \E i \in Gens, r \in WideRequests, cb \in Callbacks :
          NoCallYet /\ generate_async(i, r, cb)
    \/ \E i \in Gens, r \in WideRequests : NoCallYet /\ generate(i, r)
    \/ \E i \in Gens : AsyncReturn(i)
    \/ \E i \in Gens : Worker(i)

SpecOne == Init /\ [][NextOne]_vars

\* Direct calls of generate, one after the other.
Quiescent == \A j \in Gens : pc[j] \in {"idle", "done", "crashed"}

NextSeq ==
    \/ \E i \in Gens, r \in Requests : Quiescent /\ generate(i, r)
    \/ \E i \in Gens : GenerateStep(i)
    \/ \E i \in Gens : GenerateReturn(i)

SpecSeq == Init /\ [][NextSeq]_vars

\* ------------------------------------------------ reading the histories
HasOp(i, op) == \E k \in DOMAIN ops[i] : ops[i][k] = op

\* Every occurrence of `before` in the history of call i precedes every `after`.
Precedes(i, before, after) ==
    \A k \in DOMAIN ops[i] : ops[i][k] = after =>
        \E h \in 1..(k - 1) : ops[i][h] = before

LastOp(i) == ops[i][Len(ops[i])]

PathFailures == {"makedirs!exists", "makedirs!denied", "join!"}
RenderFailures == {"row!", "decorate!", "open!", "write!"}

Returned(i) == pc[i] \in {"ret", "done"}

FailedIn(i, failures) == \E f \in failures : HasOp(i, f)

HasPrefix(s, prefix) ==
    Len(s) >= Len(prefix) /\ SubSeq(s, 1, Len(prefix)) = prefix

RECURSIVE SumCoeff(_)
SumCoeff(subjects) ==
    IF subjects = <<>> THEN 0
    ELSE subjects[1].coeff + SumCoeff(Tail(subjects))

RECURSIVE SumWeighted(_)
SumWeighted(subjects) ==
    IF subjects = <<>> THEN 0
    ELSE subjects[1].weighted_score + SumWeighted(Tail(subjects))

\* The header row, a row per subject in input order, the totals row.
ExpectedTable(subjects) ==
    <<headers>>
    \o [k \in 1..Len(subjects) |-> Row(subjects[k])]
    \o << <<"", "TOTALS", Str(SumCoeff(subjects)), Fmt2(SumWeighted(subjects))>> >>

\* The document of a call's arguments.
ExpectedDocument(a) ==
    Document(a.total_avg, a.classification, ExpectedTable(a.subjects))

\* --------------------------------------------------------------- claims

\* C3: no failure escapes generate.  Whatever raises during path
\* resolution, table construction, page decoration, the opening or the
\* writing of the file, generate returns (False, <message>); and a task
\* started with a callback never ends without having invoked it.
C3_NoFailureEscapes ==
    \A i \in Gens :
        /\ pc[i] # "crashed"
        /\ (Returned(i) /\ FailedIn(i, PathFailures \cup RenderFailures)) =>
               /\ result[i] # NoResult
               /\ result[i][1] = FALSE
               /\ Len(result[i][2]) > 0
        /\ (pc[i] \in {"done", "crashed"} /\ args[i].mode = "async"
              /\ args[i].callback # None) => Len(cbLog[i]) = 1

\* A failed write reached the callback as (False, message).
C3_Witness ==
    \E i \in Gens :
        /\ HasOp(i, "write!")
        /\ args[i].callback = "on_done"
        /\ cbLog[i] = << <<FALSE, NoSpace.msg>> >>

\* C4: a failure of path resolution returns (False, "Path Error: " + cause)
\* at once, with no document built and no file touched by the call; a
\* failure after path resolution never carries the "Path Error: " prefix.
C4_PathErrorOnly ==
    \A i \in Gens :
        /\ (Returned(i) /\ FailedIn(i, PathFailures)) =>
               /\ result[i][1] = FALSE
               /\ HasPrefix(result[i][2], "Path Error: ")
               /\ SubSeq(result[i][2], 13, Len(result[i][2])) \in
                     {"[Errno 17] File exists: '/home/user/Downloads'",
                      "[Errno 13] Permission denied: '/home/user/Downloads'",
                      "expected str, bytes or os.PathLike object, not NoneType"}
               /\ LastOp(i) \in PathFailures
               /\ ~HasOp(i, "doc") /\ ~HasOp(i, "open") /\ ~HasOp(i, "write")
               /\ ~HasOp(i, "write!")
               /\ frame[i].data = <<>> /\ frame[i].pdf = <<>>
               /\ DOMAIN files = {}
        /\ (Returned(i) /\ FailedIn(i, RenderFailures)) =>
               /\ result[i][1] = FALSE
               /\ ~HasPrefix(result[i][2], "Path Error: ")

\* A refused directory creation was reported with the prefix.
C4_Witness ==
    \E i \in Gens :
        /\ HasOp(i, "makedirs!denied")
        /\ Returned(i)
        /\ result[i] =
              <<FALSE, "Path Error: [Errno 13] Permission denied: '/home/user/Downloads'">>

\* C5: the table handed to the engine is the header row, one row per
\* subject in input order, and a totals row holding the sums of the coeff
\* and weighted_score values; for no subjects, the header and the totals
\* row "0", "0.00".
C5_TableAndTotals ==
    \A i \in Gens :
        HasOp(i, "table") =>
            /\ frame[i].data = ExpectedTable(args[i].subjects)
            /\ Len(frame[i].data) = Len(args[i].subjects) + 2
            /\ args[i].subjects = <<>> =>
                  frame[i].data = <<headers, <<"", "TOTALS", "0", "0.00">> >>

\* The example of the specification: coefficients 4 + 3, weighted 60.00 + 37.50.
C5_Witness ==
    \E i \in Gens :
        /\ HasOp(i, "table")
        /\ args[i].subjects = <<Math, Physics>>
        /\ frame[i].data[4] = <<"", "TOTALS", "7", "97.50">>
        /\ frame[i].data[3][1] = "Normal|<b>Physics</b>"

\* C6: generate returns success exactly when path resolution succeeded and
\* the engine wrote the whole document; the message is then "Saved to: "
\* followed by the joined path, an absolute file name standing alone.
C6_SuccessIffWritten ==
    \A i \in Gens :
        Returned(i) =>
            /\ result[i][1] = (HasOp(i, "join") /\ HasOp(i, "write"))
            /\ result[i][1] =>
                  result[i][2] =
                     "Saved to: " \o
                        (IF IsAbs(args[i].filename) THEN args[i].filename
                         ELSE (IF android_path \in dirs THEN android_path
                               ELSE "/home/user/Downloads")
                              \o "/" \o args[i].filename)

\* A report saved below the created Downloads directory.
C6_Witness ==
    \E i \in Gens :
        /\ Returned(i)
        /\ HasOp(i, "makedirs")
        /\ result[i] = <<TRUE, "Saved to: /home/user/Downloads/good_report.pdf">>

\* C7: path resolution.  An existing mobile directory is the save
\* directory, and Downloads is then neither probed nor created; otherwise
\* Downloads is the save directory and, when the probe found it missing,
\* it is created before the output file is opened.  In sequential calls a
\* later call finds the directory, does not create it again and does not
\* fail because it exists.
C7_PathResolution ==
    \A i \in Gens :
        /\ ops[i] # <<>> =>
              ops[i][1] = (IF android_path \in dirs THEN "exists(android)=True"
                           ELSE "exists(android)=False")
        /\ HasOp(i, "exists(android)=True") =>
              /\ frame[i].save_dir = "/storage/emulated/0/Download"
              /\ ~HasOp(i, "exists(desktop)=True")
              /\ ~HasOp(i, "exists(desktop)=False")
              /\ ~HasOp(i, "makedirs") /\ ~FailedIn(i, PathFailures \ {"join!"})
        /\ HasOp(i, "exists(android)=False") =>
              /\ frame[i].save_dir = "/home/user/Downloads"
              /\ HasOp(i, "exists(desktop)=False") =>
                    /\ Precedes(i, "makedirs", "open")
                    /\ Precedes(i, "makedirs", "open!")
              /\ HasOp(i, "open") => frame[i].save_dir \in dirs
        /\ ~HasOp(i, "makedirs!exists")
        /\ \A j \in Gens :
              (i < j /\ HasOp(i, "exists(android)=False") /\ HasOp(i, "join")
                 /\ Len(ops[j]) > 1) =>
                    /\ ops[j][2] = "exists(desktop)=True"
                    /\ ~HasOp(j, "makedirs") /\ ~FailedIn(j, PathFailures \ {"join!"})

\* A first call created Downloads; the next one found it and saved there.
C7_Witness ==
    \E i, j \in Gens :
        /\ i < j
        /\ HasOp(i, "makedirs")
        /\ HasOp(j, "exists(desktop)=True")
        /\ result[j][1] = TRUE

Succeeded(i) == Returned(i) /\ result[i][1] = TRUE

\* C8: of two sequential successful calls with the same file name, the file
\* holds the document of the second call only.
C8_SecondCallOverwrites ==
    \A i, j \in Gens :
        (/\ i < j
         /\ Succeeded(i) /\ Succeeded(j)
         /\ frame[i].full_path = frame[j].full_path
         /\ \A k \in Gens : k > j => ~HasOp(k, "open")) =>
            /\ files[frame[j].full_path] = ExpectedDocument(args[j])
            /\ ExpectedDocument(args[i]) # ExpectedDocument(args[j]) =>
                  files[frame[j].full_path] # ExpectedDocument(args[i])

\* A two-subject report was replaced by the shorter report of no subjects.
C8_Witness ==
    \E i, j \in Gens :
        /\ i < j
        /\ Succeeded(i) /\ Succeeded(j)
        /\ frame[i].full_path = frame[j].full_path
        /\ args[i].subjects = <<Math, Physics>>
        /\ args[j].subjects = <<>>
        /\ Len(files[frame[j].full_path]) = 3

\* C9: creating the directory is safe under concurrent generations.  No
\* generation fails path resolution because another one created Downloads
\* between its probe and its makedirs, and Downloads exists once a
\* generation has resolved its path to it.
C9_CreateIfMissingIsSafe ==
    \A i \in Gens :
        /\ ~HasOp(i, "makedirs!exists")
        /\ (HasOp(i, "join") /\ frame[i].save_dir = desktop_path) =>
              desktop_path \in dirs

\* The calls that opened path p.
Openers(p) == {i \in Gens : HasOp(i, "open") /\ frame[i].full_path = p}

\* C10: when concurrent generations of one path all report success, the
\* file holds the document of the one whose write completed last, and each
\* callback received the result of its own generation.
C10_LastWriterWins ==
    /\ \A p \in DOMAIN lastWriter :
          (/\ Cardinality(Openers(p)) > 1
           /\ \A i \in Openers(p) : Succeeded(i)) =>
              files[p] = ExpectedDocument(args[lastWriter[p]])
    /\ \A i \in Gens : cbLog[i] # <<>> => cbLog[i] = <<result[i]>>

\* C2 as claimed: when generate_async returns, its callback has not been
\* invoked yet.
C2_ReturnsBeforeCallback ==
    [][\A i \in Gens :
          (callerPc[i] = "in_async" /\ callerPc'[i] = "returned") =>
              cbLog'[i] = <<>>]_vars

\* C2 as amended: generate_async never waits for its worker, so that it can
\* return whatever the worker's position; and a callback is only invoked
\* for a call whose thread was started.
C2_NeverWaitsForWorker ==
    \A i \in Gens :
        /\ (alive /\ callerPc[i] = "in_async") => ENABLED AsyncReturn(i)
        /\ cbLog[i] # <<>> => callerPc[i] \in {"in_async", "returned"}
        /\ args[i].mode = "async" => callerPc[i] \in {"in_async", "returned"}

\* generate_async returned while its worker had not taken a step.
C2_Witness ==
    \E i \in Gens :
        /\ callerPc[i] = "returned"
        /\ args[i].mode = "async"
        /\ pc[i] = "probe_android"

\* What may be seen of a callback at any moment: at most one invocation,
\* made by a task whose generate has returned, with the pair generate
\* returned; and none at all when no callback was supplied.
CallbackSafety ==
    \A i \in Gens :
        /\ Len(cbLog[i]) <= 1
        /\ args[i].callback = None => cbLog[i] = <<>>
        /\ cbLog[i] # <<>> =>
              /\ args[i].mode = "async"
              /\ pc[i] = "done"
              /\ result[i] # NoResult
              /\ cbLog[i][1] = result[i]
              /\ result[i][1] = HasOp(i, "write")

\* C1: while the process lives and the worker is scheduled fairly, a
\* callback supplied to generate_async is eventually invoked, exactly once,
\* only after generate has returned and with the pair it returned; and
\* nothing is invoked when no callback was supplied.
C1_CallbackExactlyOnce ==
    /\ []CallbackSafety
    /\ \A i \in Gens :
          (args[i].mode = "async" /\ args[i].callback # None)
             ~> (Len(cbLog[i]) = 1 \/ ~alive)

\* A failure result delivered to the callback.
C1_Witness ==
    \E i \in Gens :
        /\ Len(cbLog[i]) = 1
        /\ cbLog[i][1][1] = FALSE
        /\ pc[i] = "done"

====
